---- MODULE Spec2Model ----
(***************************************************************************)
(* A model of the hex-engine core: the Canvas (scene set, active scene,    *)
(* run-loop frame) and the BaseComponent lifecycle, as implemented in      *)
(* packages/engine/src/Component.ts; and of the 2d package's hit test      *)
(* (Hooks/useEntitiesAtPoint.ts), Keyboard component                       *)
(* (Components/Keyboard.ts) and Tiled loaders (Components/Tiled.ts).       *)
(***************************************************************************)
EXTENDS Integers, Sequences, FiniteSets, TLC

\* ------------------------------------------------------------------ bounds

\* Scenes other than the root scene that user code may create.
MaxScenes == 1
\* scene.tick calls recorded per frame (a frame can tick a scene again when
\* the scene is deleted and re-added while Set.forEach is running).
MaxTicks == 3
\* Calls made on one component.
MaxCalls == 3
\* Entities of the tree a point is looked up in, the root entity included.
MaxEnts == 3

\* useFirstKey calls made by user code.
MaxHandlers == 2

\* ------------------------------------------------------------------ values

Null == "null"

\* The scene created by the constructor is scene 0; 1..MaxScenes are the
\* scenes user code creates with new Scene().
SceneIds == 0..MaxScenes

\* Entities that user code adds to / removes from the canvas.
CanvasEntities == {"e1", "e2"}

\* The two ways the constructor obtains its canvas element.
Elements == {"given", "created"}

\* Elapsed times the run loop may report for a frame.
Deltas == {16, 33}

\* Entities a component can be attached to, and what each of them holds.
ComponentEntities == {"E1", "E2"}

ComponentTypes == {"Geometry", "Keyboard"}

VARIABLES
  \* BaseComponent fields
  entity,       \* Entity | null
  isEnabled,
  \* what is observed of the component
  calls,        \* the calls made on it, in order
  hooks,        \* the hook invocations they made, in order
  returned,     \* the outcome of the last getComponent call
  \* Canvas fields
  _element,     \* HTMLCanvasElement
  scenes,       \* Set<Scene>, as the sequence of its entries in insertion order
  rootScene,
  activeScene,
  entities,     \* scene.entities of every scene
  \* the run loop callback
  pc,           \* "idle": between frames; "frame": scenes.forEach is running
  delta,        \* the callback's argument
  pos,          \* number of entries of scenes the forEach cursor has passed
  ticks,        \* the scene.tick calls made by the current (or last) frame
  frameCalls    \* which of present / removeChild(scene) ran inside this frame's ticks

VARIABLES
  \* the entity tree useEntitiesAtPoint walks
  parent,       \* the parent of every entity but the root
  position,     \* every entity's offset from its parent
  geometry,     \* every entity's Geometry components, in insertion order
  \* a useEntitiesAtPoint call
  worldPos,     \* its arguments, none before the call
  sortedEnts    \* what it returned

VARIABLES
  \* the keyboard, as the browser sees it
  held,         \* the keys that are physically down
  listeners,    \* document's event listener list, in registration order
  \* Keyboard.ts module state
  firstKeyHasHappened,
  pendingFirstKeyHandlers,
  \* every Keyboard component
  pressed,      \* its pressed Set
  transitions,  \* the last two of the enable / disable calls made on it
  \* what is observed of them
  runs,         \* how many times each useFirstKey handler has run
  early,        \* the handlers registered before any keydown was processed
  keydownSeen,  \* some processKeydown has run
  processedBy,  \* how many times each Keyboard processed the last key event
  direction     \* the last vectorFromKeys call and what it returned

VARIABLES
  \* a Tiled.Tileset or Tiled.Layer construction
  data,         \* the XMLSourceLoader.Element passed to it
  constructed   \* how the construction ended, nothing before it

VARIABLES
  \* a Canvas.hasChild call
  hasChildReturned  \* the last call's argument and what it returned, none before it

canvasVars ==
  <<_element, scenes, rootScene, activeScene, entities, pc, delta, pos, ticks, frameCalls>>

componentVars == <<entity, isEnabled, calls, hooks, returned>>

hitVars == <<parent, position, geometry, worldPos, sortedEnts>>

keyVars ==
  <<held, listeners, firstKeyHasHappened, pendingFirstKeyHandlers, pressed,
    transitions, runs, early, keydownSeen, processedBy, direction>>

tiledVars == <<data, constructed>>

hasChildVars == <<hasChildReturned>>

vars == <<componentVars, canvasVars, hitVars, keyVars, tiledVars, hasChildVars>>

\* What a Canvas operation, and what a call on a component, leaves alone.
nonCanvasVars == <<componentVars, hitVars, keyVars, tiledVars, hasChildVars>>

nonComponentVars == <<canvasVars, hitVars, keyVars, tiledVars, hasChildVars>>

nonHitVars == <<componentVars, canvasVars, keyVars, tiledVars, hasChildVars>>

nonKeyVars == <<componentVars, canvasVars, hitVars, tiledVars, hasChildVars>>

nonTiledVars == <<componentVars, canvasVars, hitVars, keyVars, hasChildVars>>

\* ------------------------------------------------------ JavaScript Set<T>

Range(s) == {s[i] : i \in 1..Len(s)}

SetHas(s, x) == x \in Range(s)

\* Set.prototype.add: a new value is appended to the entry list, a value
\* already present leaves the list as it is.
SetAdd(s, x) == IF SetHas(s, x) THEN s ELSE Append(s, x)

IndexOf(s, x) == CHOOSE i \in 1..Len(s) : s[i] = x

\* Set.prototype.delete: the entry is removed, the others keep their order.
SetDelete(s, x) ==
  IF SetHas(s, x)
    THEN LET k == IndexOf(s, x)
         IN  [i \in 1..(Len(s) - 1) |-> IF i < k THEN s[i] ELSE s[i + 1]]
    ELSE s

\* The forEach cursor after delete(x): an entry already passed no longer
\* counts; an entry not yet reached is simply never visited.
CursorAfterDelete(s, p, x) ==
  IF SetHas(s, x) /\ IndexOf(s, x) <= p THEN p - 1 ELSE p

\* ------------------------------------------------------------------ Canvas

\* User code runs between frames, or inside the scene.tick the frame is
\* currently executing.
InTick == pc = "frame" /\ Len(ticks) > 0

CanCall == pc = "idle" \/ InTick

NoteCall(name) == IF InTick THEN frameCalls \cup {name} ELSE frameCalls

\* constructor: the element, the scene set holding the new root scene, which
\* is the active one; the run loop is started.
CanvasInit ==
  /\ _element \in Elements
  /\ rootScene = 0
  /\ scenes = <<rootScene>>
  /\ activeScene = rootScene
  /\ entities = [s \in SceneIds |-> {}]
  /\ pc = "idle"
  /\ delta = 0
  /\ pos = 0
  /\ ticks = <<>>
  /\ frameCalls = {}

\* present as it would be if it only moved the activeScene pointer.
presentNoAdd(scene) ==
  /\ CanCall
  /\ activeScene' = scene
  /\ frameCalls' = NoteCall("present")
  /\ UNCHANGED <<_element, scenes, rootScene, entities, pc, delta, pos, ticks>>
  /\ UNCHANGED nonCanvasVars

\* present as it would be if the scene presented took the place of the
\* previously active one.
presentExclusive(scene) ==
  /\ CanCall
  /\ scenes' = SetAdd(SetDelete(scenes, activeScene), scene)
  /\ activeScene' = scene
  /\ pos' = CursorAfterDelete(scenes, pos, activeScene)
  /\ frameCalls' = NoteCall("present")
  /\ UNCHANGED <<_element, rootScene, entities, pc, delta, ticks>>
  /\ UNCHANGED nonCanvasVars

present(scene) ==
  /\ CanCall
  /\ scenes' = SetAdd(scenes, scene)
  /\ activeScene' = scene
  /\ frameCalls' = NoteCall("present")
  /\ UNCHANGED <<_element, rootScene, entities, pc, delta, pos, ticks>>
  /\ UNCHANGED nonCanvasVars

addChildScene(child) ==
  /\ CanCall
  /\ scenes' = SetAdd(scenes, child)
  /\ UNCHANGED <<_element, rootScene, activeScene, entities, pc, delta, pos, ticks, frameCalls>>
  /\ UNCHANGED nonCanvasVars

removeChildScene(child) ==
  /\ CanCall
  /\ scenes' = SetDelete(scenes, child)
  /\ pos' = CursorAfterDelete(scenes, pos, child)
  /\ frameCalls' = NoteCall("removeChild")
  /\ UNCHANGED <<_element, rootScene, activeScene, entities, pc, delta, ticks>>
  /\ UNCHANGED nonCanvasVars

\* Scene.addChild / Scene.removeChild: the scene's own entity collection.
SceneAddChild(ents, child) == ents \cup {child}

SceneRemoveChild(ents, child) == ents \ {child}

\* Canvas.addChild / removeChild with an Entity: passed to the active scene.
addChildEntity(child) ==
  /\ CanCall
  /\ entities' = [entities EXCEPT ![activeScene] = SceneAddChild(@, child)]
  /\ UNCHANGED <<_element, scenes, rootScene, activeScene, pc, delta, pos, ticks, frameCalls>>
  /\ UNCHANGED nonCanvasVars

removeChildEntity(child) ==
  /\ CanCall
  /\ entities' = [entities EXCEPT ![activeScene] = SceneRemoveChild(@, child)]
  /\ UNCHANGED <<_element, scenes, rootScene, activeScene, pc, delta, pos, ticks, frameCalls>>
  /\ UNCHANGED nonCanvasVars

\* Scene.hasChild: membership in the scene's own entity collection.
SceneHasChild(ents, child) == child \in ents

\* hasChild with an Entity as it would be if it asked the root scene.
hasChildEntityRoot(child) ==
  /\ CanCall
  /\ hasChildReturned' =
       <<[entity |-> <<child>>, scene |-> <<>>,
          result |-> SceneHasChild(entities[rootScene], child)]>>
  /\ UNCHANGED canvasVars
  /\ UNCHANGED <<componentVars, hitVars, keyVars, tiledVars>>

\* Canvas.hasChild with an Entity: asked of the active scene.
hasChildEntity(child) ==
  /\ CanCall
  /\ hasChildReturned' =
       <<[entity |-> <<child>>, scene |-> <<>>,
          result |-> SceneHasChild(entities[activeScene], child)]>>
  /\ UNCHANGED canvasVars
  /\ UNCHANGED <<componentVars, hitVars, keyVars, tiledVars>>

\* Canvas.hasChild with a Scene: membership in scenes.
hasChildScene(child) ==
  /\ CanCall
  /\ hasChildReturned' =
       <<[entity |-> <<>>, scene |-> <<child>>, result |-> SetHas(scenes, child)]>>
  /\ UNCHANGED canvasVars
  /\ UNCHANGED <<componentVars, hitVars, keyVars, tiledVars>>

\* No hasChild call made.
HasChildInit == hasChildReturned = <<>>

\* The run loop calls the callback with the frame's delta; forEach starts.
RunLoopFire(d) ==
  /\ pc = "idle"
  /\ pc' = "frame"
  /\ delta' = d
  /\ UNCHANGED <<_element, scenes, rootScene, activeScene, entities, pos, ticks, frameCalls>>
  /\ UNCHANGED nonCanvasVars

\* The tick arguments as they would be if isActive compared with rootScene.
TickRecordRoot(scene) ==
  [scene |-> scene, isActive |-> (scene = rootScene), delta |-> delta, element |-> _element]

\* One iteration of scenes.forEach: the next entry is ticked.
TickRecord(scene) ==
  [scene |-> scene, isActive |-> (scene = activeScene), delta |-> delta, element |-> _element]

\* The callback as it would be if it ticked the active scene alone.
TickSceneActiveOnly ==
  /\ pc = "frame"
  /\ pos < Len(scenes)
  /\ Len(ticks) < MaxTicks
  /\ ticks' = Append(ticks, TickRecord(activeScene))
  /\ pos' = Len(scenes)
  /\ UNCHANGED <<_element, scenes, rootScene, activeScene, entities, pc, delta, frameCalls>>
  /\ UNCHANGED nonCanvasVars

TickScene ==
  /\ pc = "frame"
  /\ pos < Len(scenes)
  /\ Len(ticks) < MaxTicks
  /\ ticks' = Append(ticks, TickRecord(scenes[pos + 1]))
  /\ pos' = pos + 1
  /\ UNCHANGED <<_element, scenes, rootScene, activeScene, entities, pc, delta, frameCalls>>
  /\ UNCHANGED nonCanvasVars

\* forEach has no entry left: the callback returns.
FrameDone ==
  /\ pc = "frame"
  /\ pos = Len(scenes)
  /\ pc' = "idle"
  /\ delta' = 0
  /\ pos' = 0
  /\ ticks' = <<>>
  /\ frameCalls' = {}
  /\ UNCHANGED <<_element, scenes, rootScene, activeScene, entities>>
  /\ UNCHANGED nonCanvasVars

Frame ==
  \/ \E d \in Deltas : RunLoopFire(d)
  \/ TickScene
  \/ FrameDone

\* ----------------------------------------------------------- BaseComponent

Call(op, arg) == [op |-> op, arg |-> arg]

\* A hook invocation made by call number `call`: the hook's argument, and
\* this.entity and this.isEnabled as the hook body reads them.
Hook(call, hook, arg, ent, enabled) ==
  [call |-> call, hook |-> hook, arg |-> arg, entity |-> ent, isEnabled |-> enabled]

Return(v) == [kind |-> "return", value |-> v]

\* Reading a property of null raises a TypeError.
Throw == [kind |-> "throw", value |-> "TypeError"]

NoOutcome == [kind |-> "none", value |-> Null]

\* The components an entity holds, in insertion order.
EntityComponents(e) ==
  IF e = "E1"
    THEN << [id |-> "g1", type |-> "Geometry"],
            [id |-> "k1", type |-> "Keyboard"],
            [id |-> "g2", type |-> "Geometry"] >>
    ELSE << [id |-> "k2", type |-> "Keyboard"] >>

\* Entity.getComponent: the first component of the type, or null.
EntityGetComponent(e, type) ==
  LET cs == EntityComponents(e)
      hit == {i \in 1..Len(cs) : cs[i].type = type}
  IN  IF hit = {} THEN Null
      ELSE cs[CHOOSE i \in hit : \A j \in hit : i <= j].id

\* constructor: detached; isEnabled is config.isEnabled ?? true.
ComponentInit ==
  /\ entity = Null
  /\ isEnabled \in BOOLEAN
  /\ calls = <<>>
  /\ hooks = <<>>
  /\ returned = NoOutcome

\* The component when the surface alone is exercised.
ComponentDefault ==
  /\ entity = Null
  /\ isEnabled = TRUE
  /\ calls = <<>>
  /\ hooks = <<>>
  /\ returned = NoOutcome

\* _receiveEntity as it would be if it only passed the entity to the hook.
_receiveEntityHookOnly(e) ==
  /\ Len(calls) < MaxCalls
  /\ calls' = Append(calls, Call("_receiveEntity", e))
  /\ hooks' = Append(hooks, Hook(Len(calls) + 1, "onEntityReceived", e, entity, isEnabled))
  /\ UNCHANGED <<entity, isEnabled, returned>>
  /\ UNCHANGED nonComponentVars

\* _receiveEntity as it would be if the hook ran before the assignment.
_receiveEntityHookFirst(e) ==
  /\ Len(calls) < MaxCalls
  /\ calls' = Append(calls, Call("_receiveEntity", e))
  /\ hooks' = Append(hooks, Hook(Len(calls) + 1, "onEntityReceived", e, entity, isEnabled))
  /\ entity' = e
  /\ UNCHANGED <<isEnabled, returned>>
  /\ UNCHANGED nonComponentVars

\* _receiveEntity as it would be if an attached component kept its entity.
_receiveEntityOnce(e) ==
  /\ Len(calls) < MaxCalls
  /\ calls' = Append(calls, Call("_receiveEntity", e))
  /\ entity' = (IF entity = Null \/ e = Null THEN e ELSE entity)
  /\ hooks' = Append(hooks, Hook(Len(calls) + 1, "onEntityReceived", e, entity', isEnabled))
  /\ UNCHANGED <<isEnabled, returned>>
  /\ UNCHANGED nonComponentVars

_receiveEntity(e) ==
  /\ Len(calls) < MaxCalls
  /\ calls' = Append(calls, Call("_receiveEntity", e))
  /\ entity' = e
  /\ hooks' = Append(hooks, Hook(Len(calls) + 1, "onEntityReceived", e, entity', isEnabled))
  /\ UNCHANGED <<isEnabled, returned>>
  /\ UNCHANGED nonComponentVars

\* enable as it would be if it skipped the hook for an enabled component.
enableGuarded ==
  /\ Len(calls) < MaxCalls
  /\ calls' = Append(calls, Call("enable", Null))
  /\ isEnabled' = TRUE
  /\ hooks' = (IF isEnabled THEN hooks
                ELSE Append(hooks, Hook(Len(calls) + 1, "onEnabled", Null, entity, isEnabled')))
  /\ UNCHANGED <<entity, returned>>
  /\ UNCHANGED nonComponentVars

enable ==
  /\ Len(calls) < MaxCalls
  /\ calls' = Append(calls, Call("enable", Null))
  /\ isEnabled' = TRUE
  /\ hooks' = Append(hooks, Hook(Len(calls) + 1, "onEnabled", Null, entity, isEnabled'))
  /\ UNCHANGED <<entity, returned>>
  /\ UNCHANGED nonComponentVars

disable ==
  /\ Len(calls) < MaxCalls
  /\ calls' = Append(calls, Call("disable", Null))
  /\ isEnabled' = FALSE
  /\ hooks' = Append(hooks, Hook(Len(calls) + 1, "onDisabled", Null, entity, isEnabled'))
  /\ UNCHANGED <<entity, returned>>
  /\ UNCHANGED nonComponentVars

\* getComponent as it would be without the null check.
getComponentUnguarded(ent, componentClass) ==
  IF ent = Null
    THEN Throw
    ELSE Return(EntityGetComponent(ent, componentClass))

getComponentOutcome(ent, componentClass) ==
  IF ent = Null
    THEN Return(Null)
    ELSE Return(EntityGetComponent(ent, componentClass))

getComponent(componentClass) ==
  /\ Len(calls) < MaxCalls
  /\ calls' = Append(calls, Call("getComponent", componentClass))
  /\ returned' = getComponentOutcome(entity, componentClass)
  /\ UNCHANGED <<entity, isEnabled, hooks>>
  /\ UNCHANGED nonComponentVars

\* ------------------------------------------------------ useEntitiesAtPoint

\* The entities of the tree; entity 1 is the root entity.  Entities are
\* numbered in the order they were added, so a parent precedes its children
\* and siblings are in insertion order.
HitEntities == 1..MaxEnts

rootEnt == CHOOSE e \in HitEntities : \A d \in HitEntities : e <= d

\* World positions asked for, and the offsets an entity can have.
Points == 0..2

Offsets == {0, 1}

\* Every shape covers the local positions 0 and 1.
ShapeContainsPoint(q) == q \in {0, 1}

\* What an entity can hold: no Geometry, one that draws with the scene, one
\* that is a debug overlay, or two debug overlays.
GeometryLists ==
  { <<>>,
    <<[isDebugOverlay |-> FALSE]>>,
    <<[isDebugOverlay |-> TRUE]>>,
    <<[isDebugOverlay |-> TRUE], [isDebugOverlay |-> TRUE]>> }

\* Entity.children, in insertion order.
Children(e) ==
  LET cs == {c \in HitEntities \ {rootEnt} : parent[c] = e}
  IN  [i \in 1..Cardinality(cs) |->
         CHOOSE c \in cs : Cardinality({d \in cs : d < c}) = i - 1]

\* Entity.descendants(): pre-order, the entity itself excluded.
RECURSIVE DescendantsFrom(_, _)
DescendantsFrom(cs, i) ==
  IF i > Len(cs) THEN <<>>
  ELSE <<cs[i]>> \o DescendantsFrom(Children(cs[i]), 1) \o DescendantsFrom(cs, i + 1)

Descendants(e) == DescendantsFrom(Children(e), 1)

\* useEntityTransforms(ent).matrixForWorldPosition(): the offsets along the
\* ancestor chain; its inverse maps a world position to the local one.
RECURSIVE MatrixForWorldPosition(_)
MatrixForWorldPosition(e) ==
  IF e = rootEnt THEN position[e] ELSE position[e] + MatrixForWorldPosition(parent[e])

InverseTransformPoint(e, p) == p - MatrixForWorldPosition(e)

\* ent.getComponent(Geometry) finds a Geometry on the entity.
HasGeometry(e) == geometry[e] # <<>>

\* The components of the entities in draw order: entity by entity, each
\* entity's components in insertion order.
RECURSIVE DrawOrderSort(_)
DrawOrderSort(ents) ==
  IF ents = <<>> THEN <<>>
  ELSE LET e == Head(ents)
       IN  [i \in 1..Len(geometry[e]) |->
              [entity |-> e, isDebugOverlay |-> geometry[e][i].isDebugOverlay]]
           \o DrawOrderSort(Tail(ents))

\* Canvas.DrawOrder.isDebugOverlay
IsDebugOverlay(component) == component.isDebugOverlay

Reverse(s) == [i \in 1..Len(s) |-> s[Len(s) + 1 - i]]

\* allEnts.filter(...): the entities with a Geometry whose shape contains the
\* point mapped into the entity's space.
UnderCursor(e, p) ==
  /\ HasGeometry(e)
  /\ ShapeContainsPoint(InverseTransformPoint(e, p))

EntsUnderCursor(p) ==
  LET allEnts == <<rootEnt>> \o Descendants(rootEnt)
      Test(e) == UnderCursor(e, p)
  IN  SelectSeq(allEnts, Test)

\* The loop as it would be without entsSeenSoFar.
RECURSIVE EntsOfAll(_, _)
EntsOfAll(components, entsSeenSoFar) ==
  IF components = <<>> THEN <<>>
  ELSE <<Head(components).entity>> \o EntsOfAll(Tail(components), entsSeenSoFar)

\* The loop over the components: an entity is pushed when first seen.
RECURSIVE EntsOf(_, _)
EntsOf(components, entsSeenSoFar) ==
  IF components = <<>> THEN <<>>
  ELSE LET ent == Head(components).entity
       IN  IF ent \in entsSeenSoFar
             THEN EntsOf(Tail(components), entsSeenSoFar)
             ELSE <<ent>> \o EntsOf(Tail(components), entsSeenSoFar \cup {ent})

\* The ranked branch: sort, filter, reverse, then the loop.
RankedEnts(entsUnderCursor) ==
  LET components == Reverse(SelectSeq(DrawOrderSort(entsUnderCursor), IsDebugOverlay))
  IN  EntsOf(components, {})

\* The function as it would be without the early return.
EntitiesAtPointAlwaysRanked(p) == RankedEnts(EntsUnderCursor(p))

EntitiesAtPoint(p) ==
  LET entsUnderCursor == EntsUnderCursor(p)
  IN  IF Len(entsUnderCursor) < 2 THEN entsUnderCursor ELSE RankedEnts(entsUnderCursor)

\* A tree of entities, each with its offset and its Geometry components, and
\* no call made yet.
HitInit ==
  /\ parent \in [HitEntities \ {rootEnt} -> HitEntities]
  /\ \A c \in HitEntities \ {rootEnt} : parent[c] < c
  /\ position \in [HitEntities -> Offsets]
  /\ geometry \in [HitEntities -> GeometryLists]
  /\ worldPos = <<>>
  /\ sortedEnts = <<>>

\* The tree when another part is exercised: the root entity alone.
HitDefault ==
  /\ parent = [c \in HitEntities \ {rootEnt} |-> rootEnt]
  /\ position = [e \in HitEntities |-> 0]
  /\ geometry = [e \in HitEntities |-> <<>>]
  /\ worldPos = <<>>
  /\ sortedEnts = <<>>

useEntitiesAtPoint(p) ==
  /\ worldPos = <<>>
  /\ worldPos' = <<p>>
  /\ sortedEnts' = EntitiesAtPoint(p)
  /\ UNCHANGED <<parent, position, geometry>>
  /\ UNCHANGED nonHitVars

\* ------------------------------------------------- Keyboard (Keyboard.ts)

\* The Keyboard components of the game; each has its own pressed Set and its
\* own processKeydown / processKeyup closures.
Keyboards == {"k1", "k2"}

\* The handlers user code passes to useFirstKey, a new one at every call.
Handlers == 1..MaxHandlers

\* event.key of the key events dispatched to the listeners.
EventKeys == {"w", "d"}

\* The keys vectorFromKeys is asked about, and String.prototype.toUpperCase
\* on them.
LowerKeys == {"w", "s", "a", "d"}

ToUpperCase(key) ==
  CASE key = "w" -> "W"
    [] key = "s" -> "S"
    [] key = "a" -> "A"
    [] key = "d" -> "D"
    [] OTHER -> key

VectorKeys == LowerKeys \cup {ToUpperCase(key) : key \in LowerKeys}

\* upKey, downKey, leftKey, rightKey as user code passes them.
KeyBindings == {<<"w", "s", "a", "d">>, <<"W", "S", "A", "D">>}

\* Math.PI, Math.PI / 2 and Math.PI / 4, in units of Math.PI / 4.
half == 4
quarter == 2
eighth == 1

\* The part of the state a key event's listeners read and write.
KeyState ==
  [firstKeyHasHappened |-> firstKeyHasHappened,
   pendingFirstKeyHandlers |-> pendingFirstKeyHandlers,
   pressed |-> pressed,
   runs |-> runs,
   keydownSeen |-> keydownSeen,
   processedBy |-> [kb \in Keyboards |-> 0]]

\* pendingFirstKeyHandlers.forEach((cb) => cb())
RECURSIVE RunAll(_, _)
RunAll(cbs, r) ==
  IF cbs = <<>> THEN r
  ELSE RunAll(Tail(cbs), [r EXCEPT ![Head(cbs)] = @ + 1])

Entered(kb, st) ==
  [st EXCEPT !.processedBy[kb] = @ + 1]

\* processKeydown as it would be without firstKeyHasHappened.
processKeydownEveryTime(kb, event, st) ==
  LET st1 == [Entered(kb, st) EXCEPT
                !.keydownSeen = TRUE,
                !.firstKeyHasHappened = TRUE,
                !.runs = RunAll(st.pendingFirstKeyHandlers, st.runs)]
  IN  IF event.repeat THEN st1
      ELSE [st1 EXCEPT !.pressed[kb] = @ \cup {event.key}]

\* event.preventDefault() leaves the state modelled here alone.
processKeydown(kb, event, st) ==
  LET st0 == [Entered(kb, st) EXCEPT !.keydownSeen = TRUE]
      st1 == IF ~st0.firstKeyHasHappened
               THEN [st0 EXCEPT
                       !.firstKeyHasHappened = TRUE,
                       !.runs = RunAll(st0.pendingFirstKeyHandlers, st0.runs),
                       !.pendingFirstKeyHandlers = <<>>]
               ELSE st0
  IN  IF event.repeat THEN st1
      ELSE [st1 EXCEPT !.pressed[kb] = @ \cup {event.key}]

processKeyup(kb, event, st) ==
  LET st0 == Entered(kb, st)
  IN  IF event.repeat THEN st0
      ELSE [st0 EXCEPT !.pressed[kb] = @ \ {event.key}]

\* document.addEventListener(type, callback): a listener already in the list
\* with the same type and callback is not added again.
AddEventListener(ls, type, kb) ==
  LET l == [type |-> type, callback |-> kb]
  IN  IF SetHas(ls, l) THEN ls ELSE Append(ls, l)

\* document.removeEventListener(type, callback)
RemoveEventListener(ls, type, kb) ==
  LET l == [type |-> type, callback |-> kb]
      Other(x) == x # l
  IN  SelectSeq(ls, Other)

\* The onEnabled callback as it would be with a fresh closure per call.
onEnabledFreshClosure(kb) ==
  listeners \o <<[type |-> "keydown", callback |-> kb],
                 [type |-> "keyup", callback |-> kb]>>

\* The onEnabled callback: the listener list it leaves.
onEnabled(kb) ==
  AddEventListener(AddEventListener(listeners, "keydown", kb), "keyup", kb)

\* The onDisabled callback: the listener list it leaves.
onDisabled(kb) ==
  RemoveEventListener(RemoveEventListener(listeners, "keydown", kb), "keyup", kb)

\* The browser dispatching a key event: every listener of that type, in
\* registration order.
RECURSIVE Dispatch(_, _, _)
Dispatch(ls, event, st) ==
  IF ls = <<>> THEN st
  ELSE LET l == Head(ls)
           st1 == IF l.type # event.type THEN st
                  ELSE IF event.type = "keydown"
                         THEN processKeydown(l.callback, event, st)
                         ELSE processKeyup(l.callback, event, st)
       IN  Dispatch(Tail(ls), event, st1)

LastTwo(s) == IF Len(s) > 2 THEN Tail(s) ELSE s

\* No Keyboard enabled yet, no key down, no handler registered.
KeyboardInit ==
  /\ held = {}
  /\ listeners = <<>>
  /\ firstKeyHasHappened = FALSE
  /\ pendingFirstKeyHandlers = <<>>
  /\ pressed = [kb \in Keyboards |-> {}]
  /\ transitions = [kb \in Keyboards |-> <<>>]
  /\ runs = [h \in Handlers |-> 0]
  /\ early = {}
  /\ keydownSeen = FALSE
  /\ processedBy = [kb \in Keyboards |-> 0]
  /\ direction = <<>>

\* useEnableDisable: enabling the component runs the onEnabled callback,
\* whether or not it was enabled already.
KeyboardEnable(kb) ==
  /\ listeners' = onEnabled(kb)
  /\ transitions' = [transitions EXCEPT ![kb] = LastTwo(Append(@, "enable"))]
  /\ UNCHANGED <<held, firstKeyHasHappened, pendingFirstKeyHandlers, pressed,
                 runs, early, keydownSeen, processedBy, direction>>
  /\ UNCHANGED nonKeyVars

KeyboardDisable(kb) ==
  /\ listeners' = onDisabled(kb)
  /\ transitions' = [transitions EXCEPT ![kb] = LastTwo(Append(@, "disable"))]
  /\ UNCHANGED <<held, firstKeyHasHappened, pendingFirstKeyHandlers, pressed,
                 runs, early, keydownSeen, processedBy, direction>>
  /\ UNCHANGED nonKeyVars

\* The handlers are numbered in the order of the useFirstKey calls.
useFirstKey(handler) ==
  /\ \A h \in Handlers :
       (h \in early \/ SetHas(pendingFirstKeyHandlers, h)) <=> h < handler
  /\ pendingFirstKeyHandlers' = Append(pendingFirstKeyHandlers, handler)
  /\ early' = IF keydownSeen THEN early ELSE early \cup {handler}
  /\ UNCHANGED <<held, listeners, firstKeyHasHappened, pressed, transitions,
                 runs, keydownSeen, processedBy, direction>>
  /\ UNCHANGED nonKeyVars

\* The listeners run for one key event.
KeyEvent(event) ==
  LET st == Dispatch(listeners, event, KeyState)
  IN  /\ firstKeyHasHappened' = st.firstKeyHasHappened
      /\ pendingFirstKeyHandlers' = st.pendingFirstKeyHandlers
      /\ pressed' = st.pressed
      /\ runs' = st.runs
      /\ keydownSeen' = st.keydownSeen
      /\ processedBy' = st.processedBy
      /\ UNCHANGED <<listeners, transitions, early, direction>>
      /\ UNCHANGED nonKeyVars

\* The user presses a key.
KeyDown(key) ==
  /\ key \notin held
  /\ held' = held \cup {key}
  /\ KeyEvent([type |-> "keydown", key |-> key, repeat |-> FALSE])

\* The key is kept down and the browser repeats its keydown.
KeyRepeat(key) ==
  /\ key \in held
  /\ held' = held
  /\ KeyEvent([type |-> "keydown", key |-> key, repeat |-> TRUE])

\* The user releases a key.
KeyUp(key) ==
  /\ key \in held
  /\ held' = held \ {key}
  /\ KeyEvent([type |-> "keyup", key |-> key, repeat |-> FALSE])

NextKeyboard ==
  \/ \E kb \in Keyboards : KeyboardEnable(kb)
  \/ \E kb \in Keyboards : KeyboardDisable(kb)
  \/ \E handler \in Handlers : useFirstKey(handler)
  \/ \E key \in EventKeys : KeyDown(key)
  \/ \E key \in EventKeys : KeyRepeat(key)
  \/ \E key \in EventKeys : KeyUp(key)

\* pressedKeys.has(key) || pressedKeys.has(key.toUpperCase())
HasKey(pressedKeys, key) == key \in pressedKeys \/ ToUpperCase(key) \in pressedKeys

\* The angle (in units of Math.PI / 4) and magnitude vectorFromKeys builds its
\* Vector from.
VectorFromKeys(pressedKeys, upKey, downKey, leftKey, rightKey) ==
  LET up == HasKey(pressedKeys, upKey)
      down == HasKey(pressedKeys, downKey)
      left == HasKey(pressedKeys, leftKey)
      right == HasKey(pressedKeys, rightKey)
  IN  CASE up /\ right -> [angle |-> 0 - eighth, magnitude |-> 1]
        [] ~(up /\ right) /\ up /\ left -> [angle |-> half + eighth, magnitude |-> 1]
        [] ~(up /\ right) /\ ~(up /\ left) /\ down /\ right ->
             [angle |-> eighth, magnitude |-> 1]
        [] ~(up /\ right) /\ ~(up /\ left) /\ ~(down /\ right) /\ down /\ left ->
             [angle |-> quarter + eighth, magnitude |-> 1]
        [] OTHER ->
             IF up /\ ~down THEN [angle |-> 0 - quarter, magnitude |-> 1]
             ELSE IF down /\ ~up THEN [angle |-> quarter, magnitude |-> 1]
             ELSE IF left /\ ~right THEN [angle |-> half, magnitude |-> 1]
             ELSE IF right /\ ~left THEN [angle |-> 0, magnitude |-> 1]
             ELSE [angle |-> 0, magnitude |-> 0]

\* The first Keyboard with any of the direction keys in its pressed Set.
VectorInit ==
  /\ held = {}
  /\ listeners = <<>>
  /\ firstKeyHasHappened = FALSE
  /\ pendingFirstKeyHandlers = <<>>
  /\ \E keys \in SUBSET VectorKeys :
       pressed = [kb \in Keyboards |-> IF kb = "k1" THEN keys ELSE {}]
  /\ transitions = [kb \in Keyboards |-> <<>>]
  /\ runs = [h \in Handlers |-> 0]
  /\ early = {}
  /\ keydownSeen = FALSE
  /\ processedBy = [kb \in Keyboards |-> 0]
  /\ direction = <<>>

vectorFromKeys(kb, keys) ==
  /\ direction = <<>>
  /\ direction' =
       <<[keys |-> keys,
          pressedKeys |-> pressed[kb],
          vector |-> VectorFromKeys(pressed[kb], keys[1], keys[2], keys[3], keys[4])]>>
  /\ UNCHANGED <<held, listeners, firstKeyHasHappened, pendingFirstKeyHandlers,
                 pressed, transitions, runs, early, keydownSeen, processedBy>>
  /\ UNCHANGED nonKeyVars

NextVector == \E keys \in KeyBindings : vectorFromKeys("k1", keys)

\* ------------------------------------------- Tiled.Tileset, Tiled.Layer

\* An attribute that should hold a number: a number, a string (with the
\* number its text denotes) or absent.
DimensionValues ==
  {[type |-> "number", n |-> 16],
   [type |-> "string", n |-> 16],
   [type |-> "undefined", n |-> 0]}

\* The source attribute of an image element.
SourceValues ==
  {[type |-> "string", url |-> "tiles.png"],
   [type |-> "number", url |-> ""],
   [type |-> "undefined", url |-> ""]}

\* The visible attribute of a layer: absent or the number 0.
VisibleValues == {[type |-> "undefined", n |-> 0], [type |-> "number", n |-> 0]}

\* The encoding attribute of a data element; "" when absent.
EncodingValues == {"csv", "base64", ""}

TextChild ==
  [kind |-> "string", tagName |-> "", source |-> [type |-> "undefined", url |-> ""],
   encoding |-> "", text |-> " "]

ImageChildren ==
  {[kind |-> "element", tagName |-> "image", source |-> s, encoding |-> "", text |-> ""] :
     s \in SourceValues}

DataChildren ==
  {[kind |-> "element", tagName |-> "data", source |-> [type |-> "undefined", url |-> ""],
    encoding |-> e, text |-> "1,2"] : e \in EncodingValues}

\* element.children: absent, or a list of text nodes and elements.
ChildLists ==
  {<<>>, <<TextChild>>}
    \cup {<<c>> : c \in ImageChildren \cup DataChildren}
    \cup {<<TextChild, c>> : c \in ImageChildren}

TagNames == {"tileset", "layer", "map"}

\* XMLSourceLoader.Element: a string or an element.
XmlElements ==
  [kind : {"element"}, tagName : TagNames,
   tilewidth : DimensionValues, tileheight : DimensionValues,
   width : DimensionValues, height : DimensionValues, visible : VisibleValues,
   hasChildren : {TRUE}, children : ChildLists]
  \cup
  [kind : {"element"}, tagName : TagNames,
   tilewidth : DimensionValues, tileheight : DimensionValues,
   width : DimensionValues, height : DimensionValues, visible : VisibleValues,
   hasChildren : {FALSE}, children : {<<>>}]

XmlString ==
  [kind |-> "string", tagName |-> "",
   tilewidth |-> [type |-> "undefined", n |-> 0],
   tileheight |-> [type |-> "undefined", n |-> 0],
   width |-> [type |-> "undefined", n |-> 0],
   height |-> [type |-> "undefined", n |-> 0],
   visible |-> [type |-> "undefined", n |-> 0],
   hasChildren |-> FALSE, children |-> <<>>]

\* The first child that is an element with that tag name, if any.
getElementByTagName(parentEl, tagName) ==
  IF parentEl.kind = "string" THEN <<>>
  ELSE IF ~parentEl.hasChildren THEN <<>>
  ELSE LET Found(child) == child.kind # "string" /\ child.tagName = tagName
           els == SelectSeq(parentEl.children, Found)
       IN  IF els = <<>> THEN <<>> ELSE <<Head(els)>>

\* Number(x) || 0 on an attribute.
NumberOrZero(attribute) ==
  IF attribute.type = "undefined" THEN 0 ELSE attribute.n

\* csv.split(",").map((cell) => Number(cell.trim())).map((i) => i - 1)
CsvNumbers(csv) ==
  LET numbers == CASE csv = "1,2" -> <<1, 2>>
                   [] OTHER -> <<>>
  IN  [i \in 1..Len(numbers) |-> numbers[i] - 1]

ThrowError(component, message) ==
  [component |-> component, kind |-> "throw", message |-> message,
   spriteSheet |-> <<>>, grid |-> <<>>]

ReturnState(component, spriteSheet, grid) ==
  [component |-> component, kind |-> "return", message |-> "",
   spriteSheet |-> spriteSheet, grid |-> grid]

\* Tileset as it would be without the tileheight check.
TilesetNoHeightCheck(xml) ==
  IF xml.kind = "string" \/ xml.tagName # "tileset" \/ ~xml.hasChildren
    THEN ThrowError("Tileset", "Invalid XML data passed to Tiled.Tileset")
  ELSE LET image == getElementByTagName(xml, "image")
       IN  IF image = <<>>
             THEN ThrowError("Tileset",
                    "XML data passed to Tiled.Tileset does not contain an image")
           ELSE IF image[1].source.type # "string"
             THEN ThrowError("Tileset",
                    "source attribute of image in XML data passed to Tiled.Tileset is not a string")
           ELSE IF xml.tilewidth.type # "number"
             THEN ThrowError("Tileset",
                    "tilewidth attribute of tileset in XML data passed to Tiled.Tileset is not a number")
           ELSE ReturnState("Tileset",
                  <<[url |-> image[1].source.url,
                     tileWidth |-> NumberOrZero(xml.tilewidth),
                     tileHeight |-> NumberOrZero(xml.tileheight)]>>,
                  <<>>)

\* How Tileset(data) ends: the error it throws or the state it returns.
TilesetOutcome(xml) ==
  IF xml.kind = "string" \/ xml.tagName # "tileset" \/ ~xml.hasChildren
    THEN ThrowError("Tileset", "Invalid XML data passed to Tiled.Tileset")
  ELSE LET image == getElementByTagName(xml, "image")
       IN  IF image = <<>>
             THEN ThrowError("Tileset",
                    "XML data passed to Tiled.Tileset does not contain an image")
           ELSE IF image[1].source.type # "string"
             THEN ThrowError("Tileset",
                    "source attribute of image in XML data passed to Tiled.Tileset is not a string")
           ELSE IF xml.tilewidth.type # "number"
             THEN ThrowError("Tileset",
                    "tilewidth attribute of tileset in XML data passed to Tiled.Tileset is not a number")
           ELSE IF xml.tileheight.type # "number"
             THEN ThrowError("Tileset",
                    "tileheight attribute of tileset in XML data passed to Tiled.Tileset is not a number")
           ELSE ReturnState("Tileset",
                  <<[url |-> image[1].source.url,
                     tileWidth |-> NumberOrZero(xml.tilewidth),
                     tileHeight |-> NumberOrZero(xml.tileheight)]>>,
                  <<>>)

\* How Layer(layer) ends.  The messages have ' where the source has a
\* backquote.
LayerOutcome(xml) ==
  IF xml.kind = "string" \/ xml.tagName # "layer"
    THEN ThrowError("Layer", "Invalid XML data passed to Tiled.Layer")
  ELSE IF xml.width.type # "number"
    THEN ThrowError("Layer",
           "'width' attribute in XML data passed to Tiled.Layer was not a number")
  ELSE IF xml.height.type # "number"
    THEN ThrowError("Layer",
           "'height' attribute in XML data passed to Tiled.Layer was not a number")
  ELSE LET dataEl == getElementByTagName(xml, "data")
       IN  IF dataEl = <<>>
             THEN ThrowError("Layer",
                    "'data' element not found in XML data passed to Tiled.Layer")
           ELSE IF dataEl[1].encoding # "csv"
             THEN ThrowError("Layer",
                    "XML layer data passed to Tiled.Layer does not use csv encoding. Only csv encoding is supported at this time.")
           ELSE ReturnState("Layer", <<>>,
                  <<[width |-> xml.width.n, height |-> xml.height.n,
                     data |-> CsvNumbers(dataEl[1].text),
                     visible |-> ~(xml.visible.type = "number" /\ xml.visible.n = 0)]>>)

\* Any XML data, nothing constructed from it yet.
TiledInit ==
  /\ data \in XmlElements \cup {XmlString}
  /\ constructed = <<>>

\* The XML data when another part is exercised.
TiledDefault ==
  /\ data = XmlString
  /\ constructed = <<>>

Tileset ==
  /\ constructed = <<>>
  /\ constructed' = <<TilesetOutcome(data)>>
  /\ UNCHANGED data
  /\ UNCHANGED nonTiledVars

Layer ==
  /\ constructed = <<>>
  /\ constructed' = <<LayerOutcome(data)>>
  /\ UNCHANGED data
  /\ UNCHANGED nonTiledVars

NextTiled == Tileset \/ Layer

Init == ComponentDefault /\ CanvasInit /\ HitDefault /\ KeyboardInit /\ TiledDefault /\ HasChildInit

\* The Canvas operations, called by user code between frames.
Next ==
  \/ \E s \in SceneIds : present(s)
  \/ \E s \in SceneIds : addChildScene(s)
  \/ \E s \in SceneIds : removeChildScene(s)
  \/ \E e \in CanvasEntities : addChildEntity(e)
  \/ \E e \in CanvasEntities : removeChildEntity(e)

Spec == Init /\ [][Next]_vars

\* The Canvas operations together with the hasChild queries.
NextChildren ==
  \/ Next
  \/ \E e \in CanvasEntities : hasChildEntity(e)
  \/ \E s \in SceneIds : hasChildScene(s)

SpecChildren == Init /\ [][NextChildren]_vars

\* The run loop's frames, with the scene operations called between frames and
\* from inside the scene ticks of a frame.  The entity operations act on
\* scene.entities alone, which the frame callback never reads.
NextFrame ==
  \/ \E s \in SceneIds : present(s)
  \/ \E s \in SceneIds : addChildScene(s)
  \/ \E s \in SceneIds : removeChildScene(s)
  \/ Frame

SpecFrame == Init /\ [][NextFrame]_vars

\* The surface when a component alone is exercised.
CanvasDefault ==
  /\ _element = "created"
  /\ rootScene = 0
  /\ scenes = <<rootScene>>
  /\ activeScene = rootScene
  /\ entities = [s \in SceneIds |-> {}]
  /\ pc = "idle"
  /\ delta = 0
  /\ pos = 0
  /\ ticks = <<>>
  /\ frameCalls = {}

InitComponent == ComponentInit /\ CanvasDefault /\ HitDefault /\ KeyboardInit /\ TiledDefault /\ HasChildInit

\* The calls user code and the owning entity make on one component.
NextComponent ==
  \/ \E e \in ComponentEntities \cup {Null} : _receiveEntity(e)
  \/ enable
  \/ disable
  \/ \E t \in ComponentTypes : getComponent(t)

SpecComponent == InitComponent /\ [][NextComponent]_vars

InitHit == ComponentDefault /\ CanvasDefault /\ HitInit /\ KeyboardInit /\ TiledDefault /\ HasChildInit

\* One lookup of a point in the tree.
NextHit == \E p \in Points : useEntitiesAtPoint(p)

SpecHit == InitHit /\ [][NextHit]_vars

\* Keyboard components being enabled and disabled, handlers being registered
\* and keys going down and up.
InitKeyboard == ComponentDefault /\ CanvasDefault /\ HitDefault /\ KeyboardInit /\ TiledDefault /\ HasChildInit

SpecKeyboard == InitKeyboard /\ [][NextKeyboard]_vars

\* One vectorFromKeys call on a Keyboard whose pressed Set holds any of the
\* direction keys.
InitVector == ComponentDefault /\ CanvasDefault /\ HitDefault /\ VectorInit /\ TiledDefault /\ HasChildInit

SpecVector == InitVector /\ [][NextVector]_vars

\* One Tileset or Layer construction from any XML data.
InitTiled == ComponentDefault /\ CanvasDefault /\ HitDefault /\ KeyboardInit /\ TiledInit /\ HasChildInit

SpecTiled == InitTiled /\ [][NextTiled]_vars

\* ------------------------------------------------------------ properties

\* The scenes ticked with isActive = true so far in the frame.
ActiveTicked == {ticks[i].scene : i \in {j \in 1..Len(ticks) : ticks[j].isActive}}

\* The number of scene.tick calls the frame has made on scene s.
TickCount(s) == Cardinality({i \in 1..Len(ticks) : ticks[i].scene = s})

\* A step in which the frame callback calls scene.tick.
TickStep == Len(ticks') = Len(ticks) + 1

\* A step in which the frame callback returns.
FrameDoneStep == pc = "frame" /\ pc' = "idle"

\* C1: in every state reachable by the Canvas operations, activeScene is a
\* member of scenes.
C1_ActiveSceneInScenes == SetHas(scenes, activeScene)

\* C2: the constructor leaves activeScene and rootScene in scenes; every
\* present() call keeps both there; and a step takes rootScene out of scenes
\* only if it is removeChild(rootScene).
C2_PresentKeepsBoth ==
  /\ SetHas(scenes, activeScene) /\ SetHas(scenes, rootScene)
  /\ [][(\E s \in SceneIds : present(s))
          => /\ SetHas(scenes', activeScene')
             /\ (SetHas(scenes, rootScene) => SetHas(scenes', rootScene'))]_vars
  /\ [][(SetHas(scenes, rootScene) /\ ~SetHas(scenes', rootScene'))
          => removeChildScene(rootScene)]_vars

C2_Witness ==
  /\ activeScene # rootScene
  /\ SetHas(scenes, activeScene)
  /\ SetHas(scenes, rootScene)

\* C3 as stated: in a frame, at most one scene is ticked with isActive = true,
\* whatever is called from inside the ticks.
C3_AtMostOneActiveTick == Cardinality(ActiveTicked) <= 1

\* C3 as amended: a tick receives isActive = true exactly when its scene is
\* the activeScene at the moment of the tick; in a frame whose ticks do not
\* call present(), at most one scene is ticked with isActive = true.
C3_ActiveAtTickTime ==
  /\ [][TickStep
          => ticks'[Len(ticks')].isActive = (ticks'[Len(ticks')].scene = activeScene)]_vars
  /\ []("present" \notin frameCalls => Cardinality(ActiveTicked) <= 1)

C3_Witness ==
  /\ pc = "frame"
  /\ frameCalls = {}
  /\ Len(ticks) = 2
  /\ ticks[1].scene # ticks[2].scene
  /\ Cardinality(ActiveTicked) = 1

\* C4: present(scene) adds scene to scenes if it is absent and changes scenes
\* in no other way, and makes scene the activeScene; a frame that ends without
\* present() having been called from its ticks has ticked every member other
\* than the active scene, each time with isActive = false.
C4_PresentKeepsTicking ==
  /\ [][\A s \in SceneIds : present(s)
          => /\ activeScene' = s
             /\ SetHas(scenes', s)
             /\ Range(scenes) \subseteq Range(scenes')
             /\ scenes' = (IF SetHas(scenes, s) THEN scenes ELSE scenes \o <<s>>)]_vars
  /\ [][(FrameDoneStep /\ "present" \notin frameCalls)
          => \A s \in Range(scenes) \ {activeScene} :
               /\ TickCount(s) >= 1
               /\ \A i \in 1..Len(ticks) : ticks[i].scene = s => ~ticks[i].isActive]_vars

C4_Witness ==
  /\ pc = "frame"
  /\ pos = Len(scenes)
  /\ "present" \notin frameCalls
  /\ activeScene # rootScene
  /\ \E i \in 1..Len(ticks) : ticks[i].scene = rootScene /\ ~ticks[i].isActive
  /\ \E i \in 1..Len(ticks) : ticks[i].scene = activeScene /\ ticks[i].isActive

\* C5 as stated: when a frame ends, every member of scenes has been ticked
\* exactly once, all ticks with the frame's delta and the canvas element.
C5_TickedExactlyOnce ==
  [][FrameDoneStep
       => /\ \A s \in Range(scenes) : TickCount(s) = 1
          /\ \A i \in 1..Len(ticks) : ticks[i].delta = delta /\ ticks[i].element = _element]_vars

\* C5 as amended: when a frame ends, every member of scenes has been ticked
\* at least once, and exactly once if removeChild(scene) was not called from
\* inside the frame's ticks; all ticks received the frame's delta and the
\* canvas element.
C5_TickedAtLeastOnce ==
  [][FrameDoneStep
       => /\ \A s \in Range(scenes) : TickCount(s) >= 1
          /\ "removeChild" \notin frameCalls => \A s \in Range(scenes) : TickCount(s) = 1
          /\ \A i \in 1..Len(ticks) : ticks[i].delta = delta /\ ticks[i].element = _element
          /\ \A i, j \in 1..Len(ticks) :
               ticks[i].delta = ticks[j].delta /\ ticks[i].element = ticks[j].element]_vars

C5_Witness ==
  /\ pc = "frame"
  /\ pos = Len(scenes)
  /\ Len(scenes) = 2
  /\ Len(ticks) = 2
  /\ ticks[1].scene # ticks[2].scene

\* The hook invocations made by call number i.
HooksOf(i) == {k \in 1..Len(hooks) : hooks[k].call = i}

\* The calls of operation op, and the invocations of hook h, so far.
CallsOf(op) == {i \in 1..Len(calls) : calls[i].op = op}

FiredOf(h) == {k \in 1..Len(hooks) : hooks[k].hook = h}

\* Call number i fired hook h once, and nothing else.
FiresOnce(i, h) ==
  /\ Cardinality(HooksOf(i)) = 1
  /\ \A k \in HooksOf(i) : hooks[k].hook = h

LastCall == calls[Len(calls)]

\* The argument of the latest _receiveEntity among the first n calls.
LastReceived(n) ==
  LET rs == {i \in 1..n : calls[i].op = "_receiveEntity"}
  IN  IF rs = {} THEN Null
      ELSE calls[CHOOSE i \in rs : \A j \in rs : j <= i].arg

\* C6: every enable() call leaves isEnabled true and fires onEnabled once,
\* every disable() call leaves isEnabled false and fires onDisabled once,
\* whatever the state before; onEnabled and onDisabled fire as many times as
\* enable() and disable() were called, so never without a call.
C6_EnableDisableHooks ==
  /\ \A i \in CallsOf("enable") :
       FiresOnce(i, "onEnabled") /\ \A k \in HooksOf(i) : hooks[k].isEnabled
  /\ \A i \in CallsOf("disable") :
       FiresOnce(i, "onDisabled") /\ \A k \in HooksOf(i) : ~hooks[k].isEnabled
  /\ Cardinality(FiredOf("onEnabled")) = Cardinality(CallsOf("enable"))
  /\ Cardinality(FiredOf("onDisabled")) = Cardinality(CallsOf("disable"))
  /\ (Len(calls) > 0 /\ LastCall.op = "enable") => isEnabled
  /\ (Len(calls) > 0 /\ LastCall.op = "disable") => ~isEnabled

C6_Witness ==
  /\ \E i \in 1..(Len(calls) - 1) : calls[i].op = "enable" /\ calls[i + 1].op = "enable"
  /\ Cardinality(FiredOf("onEnabled")) = 2
  /\ FiredOf("onDisabled") = {}

\* C7 as stated: the entity is null until a _receiveEntity call, and whenever
\* onEnabled or onDisabled fires the entity is non-null.
C7_EntitySetBeforeHooks ==
  /\ CallsOf("_receiveEntity") = {} => entity = Null
  /\ \A k \in FiredOf("onEnabled") \cup FiredOf("onDisabled") : hooks[k].entity # Null

\* C7 as amended: the entity is null until a _receiveEntity call, and when
\* onEnabled or onDisabled fires the entity is the argument of the latest
\* _receiveEntity call before it, null if there was none.
C7_EntityIsLastReceived ==
  /\ CallsOf("_receiveEntity") = {} => entity = Null
  /\ \A k \in FiredOf("onEnabled") \cup FiredOf("onDisabled") :
       hooks[k].entity = LastReceived(hooks[k].call - 1)

C7_Witness ==
  /\ \E k \in FiredOf("onEnabled") : hooks[k].entity # Null
  /\ \E k \in FiredOf("onDisabled") : hooks[k].entity # Null

\* C8: every _receiveEntity(e) call fires onEntityReceived once, with e, and
\* the hook reads e as this.entity; after the call the entity is e, so null
\* after _receiveEntity(null), however often it is repeated.
C8_ReceiveEntityThenHook ==
  /\ \A i \in CallsOf("_receiveEntity") :
       /\ FiresOnce(i, "onEntityReceived")
       /\ \A k \in HooksOf(i) : hooks[k].arg = calls[i].arg /\ hooks[k].entity = calls[i].arg
  /\ (Len(calls) > 0 /\ LastCall.op = "_receiveEntity") => entity = LastCall.arg

C8_Witness ==
  /\ Len(calls) >= 3
  /\ calls[Len(calls) - 2] = Call("_receiveEntity", "E1")
  /\ calls[Len(calls) - 1] = Call("_receiveEntity", Null)
  /\ LastCall = Call("_receiveEntity", Null)
  /\ entity = Null

\* C9: once the component was attached to an entity E1, attaching it to
\* another entity E2 leaves E2, and not E1, as its entity.
C9_AttachmentExclusive ==
  \A i \in CallsOf("_receiveEntity") :
    ( /\ i < Len(calls)
      /\ LastCall.op = "_receiveEntity"
      /\ calls[i].arg # Null
      /\ LastCall.arg # Null
      /\ calls[i].arg # LastCall.arg )
    => (entity = LastCall.arg /\ entity # calls[i].arg)

C9_Witness ==
  /\ Len(calls) = 2
  /\ calls[1] = Call("_receiveEntity", "E1")
  /\ calls[2] = Call("_receiveEntity", "E2")
  /\ entity = "E2"

\* C10: getComponent(type) returns, and never raises: null when the entity is
\* null, and otherwise what the entity's getComponent(type) returns.
C10_GetComponentDelegates ==
  (Len(calls) > 0 /\ LastCall.op = "getComponent")
    => /\ returned.kind = "return"
       /\ entity = Null => returned.value = Null
       /\ entity # Null => returned.value = EntityGetComponent(entity, LastCall.arg)

C10_Witness ==
  /\ Len(calls) = 3
  /\ calls[1].op = "_receiveEntity" /\ calls[1].arg # Null
  /\ calls[2] = Call("_receiveEntity", Null)
  /\ LastCall.op = "getComponent"
  /\ returned = Return(Null)

\* A useEntitiesAtPoint call has returned.
Looked == worldPos # <<>>

\* The entities of the tree that have a Geometry whose shape contains the
\* point asked for, mapped into the entity's space.
MatchedEnts ==
  {e \in HitEntities :
     /\ geometry[e] # <<>>
     /\ ShapeContainsPoint(worldPos[1] - MatrixForWorldPosition(e))}

\* The matched entities in draw order: a parent before its children,
\* siblings in insertion order.
MatchedInDrawOrder ==
  LET allEnts == <<rootEnt>> \o Descendants(rootEnt)
      Matches(e) == e \in MatchedEnts
  IN  SelectSeq(allEnts, Matches)

NoDuplicates(s) == \A i, j \in 1..Len(s) : s[i] = s[j] => i = j

NotDebugOverlay(component) == ~component.isDebugOverlay

\* C11: when two or more entities match, the call returns them in reverse
\* draw order, the last drawn first.
C11_ReverseDrawOrder ==
  (Looked /\ Cardinality(MatchedEnts) >= 2) => sortedEnts = Reverse(MatchedInDrawOrder)

\* C12: the call returns only entities that have a Geometry whose shape
\* contains the mapped point, each at most once, and nothing when no Geometry
\* contains the point; an entity without Geometry is never returned.
C12_OnlyMatchedOnce ==
  Looked =>
    /\ Range(sortedEnts) \subseteq MatchedEnts
    /\ NoDuplicates(sortedEnts)
    /\ MatchedEnts = {} => sortedEnts = <<>>
    /\ \A e \in HitEntities : geometry[e] = <<>> => ~SetHas(sortedEnts, e)

C12_Witness ==
  /\ Looked
  /\ Len(sortedEnts) >= 2
  /\ \E e \in Range(sortedEnts) : Len(geometry[e]) = 2
  /\ \E e \in HitEntities : geometry[e] = <<>>

\* C13: when two or more entities match, the call returns the entities of the
\* matched entities' Geometry components that are not debug overlays, in
\* reverse draw order; debug overlays contribute nothing.
C13_KeepsNonOverlays ==
  (Looked /\ Cardinality(MatchedEnts) >= 2)
    => sortedEnts
         = EntsOf(Reverse(SelectSeq(DrawOrderSort(MatchedInDrawOrder), NotDebugOverlay)), {})

\* C18: when fewer than two entities match, the call returns the matched
\* entities as they are, whatever their Geometry components are flagged.
C18_FewerThanTwoAsIs ==
  (Looked /\ Cardinality(MatchedEnts) < 2)
    => /\ sortedEnts = MatchedInDrawOrder
       /\ Range(sortedEnts) = MatchedEnts
       /\ Len(sortedEnts) = Cardinality(MatchedEnts)

C18_Witness ==
  /\ Looked
  /\ \E e \in HitEntities :
       /\ MatchedEnts = {e}
       /\ geometry[e] = <<[isDebugOverlay |-> FALSE]>>
       /\ sortedEnts = <<e>>

\* C19: every matched entity is returned exactly once, however many entities
\* match: the result is a permutation of the matched entities.
C19_PermutationOfMatched ==
  Looked =>
    /\ Range(sortedEnts) = MatchedEnts
    /\ Len(sortedEnts) = Cardinality(MatchedEnts)

\* --------------------------------------------------------------- Keyboard

DocumentListeners(kb, type) ==
  {i \in 1..Len(listeners) : listeners[i] = [type |-> type, callback |-> kb]}

KeyEventTypes == {"keydown", "keyup"}

LastTransition(kb) ==
  IF transitions[kb] = <<>> THEN "none" ELSE transitions[kb][Len(transitions[kb])]

ListenersAsEnabled ==
  \A kb \in Keyboards :
    /\ \A type \in KeyEventTypes :
         Cardinality(DocumentListeners(kb, type))
           = IF LastTransition(kb) = "enable" THEN 1 ELSE 0
    /\ processedBy[kb] <= 1

ListenersChangeInHooks ==
  \A kb \in Keyboards : \A type \in KeyEventTypes :
    LET before == Cardinality(DocumentListeners(kb, type))
        after == Cardinality(DocumentListeners(kb, type)')
    IN  /\ after > before => KeyboardEnable(kb)
        /\ after < before => KeyboardDisable(kb)

\* C14: a Keyboard's keydown and keyup listeners are on the document exactly
\* when the last transition of the Keyboard was an enable, once each however
\* many times it was enabled in a row, so that a key event is processed at
\* most once by a Keyboard; they are added by the onEnabled hook alone and
\* removed by the onDisabled hook alone.
C14_ListenersFollowEnable ==
  /\ []ListenersAsEnabled
  /\ [][ListenersChangeInHooks]_vars

C14_Witness ==
  /\ transitions["k1"] = <<"enable", "enable">>
  /\ transitions["k2"] = <<"enable", "disable">>
  /\ processedBy["k1"] = 1
  /\ processedBy["k2"] = 0
  /\ pressed["k1"] # {}

\* C15: the pressed set of every Keyboard is the set of the keys that are
\* held down, at any time.
C15_PressedIsHeld == \A kb \in Keyboards : pressed[kb] = held

FirstKeyRunsEarlyHandlers ==
  /\ firstKeyHasHappened = keydownSeen
  /\ \A handler \in Handlers :
       runs[handler] = IF firstKeyHasHappened /\ handler \in early THEN 1 ELSE 0

\* C16: a handler registered with useFirstKey before any keydown was
\* processed has run exactly once as soon as any Keyboard has processed a
\* keydown, and no other handler has run; firstKeyHasHappened is false until
\* a keydown is processed, true afterwards, and never goes back to false.
C16_FirstKeyOnce ==
  /\ []FirstKeyRunsEarlyHandlers
  /\ [][firstKeyHasHappened => firstKeyHasHappened']_vars

C16_Witness ==
  /\ firstKeyHasHappened
  /\ \E handler \in early : runs[handler] = 1
  /\ \E handler \in Handlers \ early : SetHas(pendingFirstKeyHandlers, handler)
  /\ \A kb \in Keyboards : processedBy[kb] = 1 /\ Cardinality(pressed[kb]) = 2

\* The direction the four keys indicate together: opposing keys cancel.
NetDirection(pressedKeys, keys) ==
  LET Down(key) == IF key \in pressedKeys \/ ToUpperCase(key) \in pressedKeys THEN 1 ELSE 0
  IN  [x |-> Down(keys[4]) - Down(keys[3]), y |-> Down(keys[2]) - Down(keys[1])]

\* Its angle in units of Math.PI / 4, clockwise from right, y pointing down.
NetAngle(net) ==
  CASE net.x = 1 /\ net.y = 0 -> 0
    [] net.x = 1 /\ net.y = 1 -> 1
    [] net.x = 0 /\ net.y = 1 -> 2
    [] net.x = -1 /\ net.y = 1 -> 3
    [] net.x = -1 /\ net.y = 0 -> 4
    [] net.x = -1 /\ net.y = -1 -> 5
    [] net.x = 0 /\ net.y = -1 -> 6
    [] net.x = 1 /\ net.y = -1 -> 7

\* C20: vectorFromKeys returns magnitude 0 exactly when the pressed direction
\* keys have no net direction, and otherwise magnitude 1 with the angle of the
\* net direction.
C20_NetDirection ==
  direction # <<>> =>
    LET call == direction[1]
        net == NetDirection(call.pressedKeys, call.keys)
    IN  IF net.x = 0 /\ net.y = 0
          THEN call.vector.magnitude = 0
          ELSE /\ call.vector.magnitude = 1
               /\ (call.vector.angle + 2 * half) % (2 * half) = NetAngle(net)

\* ------------------------------------------------------------------ Tiled

ChildElements(xml, tagName) ==
  {i \in 1..Len(xml.children) :
     xml.children[i].kind = "element" /\ xml.children[i].tagName = tagName}

FirstChildElement(xml, tagName) ==
  xml.children[CHOOSE i \in ChildElements(xml, tagName) :
                 \A j \in ChildElements(xml, tagName) : i <= j]

\* What is wrong with the shape of the data given to Tileset.
TilesetDefects(xml) ==
  IF xml.kind = "string" THEN {"root"}
  ELSE {d \in {"root", "image", "source", "tilewidth", "tileheight"} :
          \/ d = "root" /\ (xml.tagName # "tileset" \/ ~xml.hasChildren)
          \/ d = "image" /\ ChildElements(xml, "image") = {}
          \/ d = "source" /\ ChildElements(xml, "image") # {}
                          /\ FirstChildElement(xml, "image").source.type # "string"
          \/ d = "tilewidth" /\ xml.tilewidth.type # "number"
          \/ d = "tileheight" /\ xml.tileheight.type # "number"}

\* What is wrong with the shape of the data given to Layer.
LayerDefects(xml) ==
  IF xml.kind = "string" THEN {"root"}
  ELSE {d \in {"root", "width", "height", "data", "encoding"} :
          \/ d = "root" /\ xml.tagName # "layer"
          \/ d = "width" /\ xml.width.type # "number"
          \/ d = "height" /\ xml.height.type # "number"
          \/ d = "data" /\ ChildElements(xml, "data") = {}
          \/ d = "encoding" /\ ChildElements(xml, "data") # {}
                            /\ FirstChildElement(xml, "data").encoding # "csv"}

\* The message that names each of them.
DefectMessage(component, defect) ==
  IF component = "Tileset"
    THEN CASE defect = "root" -> "Invalid XML data passed to Tiled.Tileset"
           [] defect = "image" -> "XML data passed to Tiled.Tileset does not contain an image"
           [] defect = "source" ->
                "source attribute of image in XML data passed to Tiled.Tileset is not a string"
           [] defect = "tilewidth" ->
                "tilewidth attribute of tileset in XML data passed to Tiled.Tileset is not a number"
           [] defect = "tileheight" ->
                "tileheight attribute of tileset in XML data passed to Tiled.Tileset is not a number"
    ELSE CASE defect = "root" -> "Invalid XML data passed to Tiled.Layer"
           [] defect = "width" ->
                "'width' attribute in XML data passed to Tiled.Layer was not a number"
           [] defect = "height" ->
                "'height' attribute in XML data passed to Tiled.Layer was not a number"
           [] defect = "data" -> "'data' element not found in XML data passed to Tiled.Layer"
           [] defect = "encoding" ->
                "XML layer data passed to Tiled.Layer does not use csv encoding. Only csv encoding is supported at this time."

\* C17: constructing a Tileset or a Layer from data of the wrong shape throws
\* an error whose message names something that is wrong with the data, and
\* returns no spriteSheet and no grid.
C17_MalformedThrows ==
  constructed # <<>> =>
    LET out == constructed[1]
        defects == IF out.component = "Tileset"
                     THEN TilesetDefects(data) ELSE LayerDefects(data)
    IN  defects # {} =>
          /\ out.kind = "throw"
          /\ out.message \in {DefectMessage(out.component, d) : d \in defects}
          /\ out.spriteSheet = <<>>
          /\ out.grid = <<>>

C17_Witness ==
  /\ constructed # <<>>
  /\ constructed[1].component = "Tileset"
  /\ TilesetDefects(data) = {"tileheight"}
  /\ data.tileheight.type = "string"
  /\ constructed[1].kind = "throw"

\* ------------------------------------------------- Canvas and its children

\* A step that changes a scene's entities changes those of the active scene
\* alone, and neither scenes nor activeScene.
EntityCallsActOnActiveScene ==
  entities' # entities =>
    /\ scenes' = scenes
    /\ activeScene' = activeScene
    /\ \A s \in SceneIds \ {activeScene} : entities'[s] = entities[s]

\* A hasChild call changes nothing and answers for the active scene (an
\* Entity) or for scenes (a Scene).
HasChildAnswersForActiveScene ==
  hasChildReturned' # hasChildReturned =>
    /\ UNCHANGED <<scenes, activeScene, entities>>
    /\ LET call == hasChildReturned'[1]
       IN  /\ call.entity # <<>> =>
                call.result = (call.entity[1] \in entities[activeScene])
           /\ call.scene # <<>> => call.result = SetHas(scenes, call.scene[1])

\* addChild / removeChild with a Scene leave activeScene and every scene's
\* entities alone; activeScene changes in present alone.
SceneCallsKeepActiveScene ==
  /\ (\E s \in SceneIds : addChildScene(s) \/ removeChildScene(s))
       => activeScene' = activeScene /\ entities' = entities
  /\ activeScene' # activeScene => \E s \in SceneIds : present(s)

\* C21: addChild, removeChild and hasChild with an Entity act on the scene
\* that is active when they are called and leave scenes, activeScene and the
\* other scenes' entities as they are; with a Scene they change or read
\* scenes alone and never change activeScene.
C21_EntityCallsOnActiveScene ==
  [][/\ EntityCallsActOnActiveScene
     /\ HasChildAnswersForActiveScene
     /\ SceneCallsKeepActiveScene]_vars

C21_Witness ==
  /\ activeScene # rootScene
  /\ \E e \in entities[rootScene] :
       /\ e \notin entities[activeScene]
       /\ hasChildReturned = <<[entity |-> <<e>>, scene |-> <<>>, result |-> FALSE]>>
  /\ entities[activeScene] # {}

====
